---- MODULE Spec2Model ----
(***************************************************************************)
(* A model of FileOrganizer (bot_helper/sort_files.py): the file tree it   *)
(* works on, the organizer's fields, and one action per method or loop     *)
(* iteration.  A file name is a sequence of one-character strings, a path  *)
(* a sequence of names, so that Path.stem, Path.suffix, str.lower, the     *)
(* regular expression of normalize and the extension table are computed    *)
(* character by character as the code computes them.                       *)
(***************************************************************************)
EXTENDS Integers, Sequences, FiniteSets, TLC

VARIABLES
    source_folder,      \* self.source_folder
    destination_folder, \* self.destination_folder
    root_dir,           \* self.root_dir: read by two methods, assigned by none
    dirs,               \* the directories on disk (a set of paths)
    files,              \* the regular files on disk: path -> content
    call,               \* the public entry point last called
    arg,                \* its argument, where it has one
    pc,                 \* "idle", or the loop the call is in
    err,                \* the exception the last call ended with, or "none"
    ret,                \* the value the last call returned, where it has one
    out,                \* what the last call printed
    globSeen,           \* the paths the running glob generator has yielded
    globSnap,           \* the matching paths that existed when it was made
    calls,              \* number of entry-point calls made so far
    files0,             \* history: files when the running call began
    dirs0,              \* history: dirs when the running call began
    prevCall            \* history: the entry point called before this one

vars == <<source_folder, destination_folder, root_dir, dirs, files, call, arg,
          pc, err, ret, out, globSeen, globSnap, calls, files0, dirs0,
          prevCall>>

----------------------------------------------------------------------------
(* Bounds of the model *)

\* most regular files in an initial tree
MaxFiles == 3
\* most entry-point calls in one behaviour
MaxCalls == 2

----------------------------------------------------------------------------
(* Characters and strings *)

UpperLetters == <<"A","B","C","D","E","F","G","H","I","J","K","L","M",
                  "N","O","P","Q","R","S","T","U","V","W","X","Y","Z">>
LowerLetters == <<"a","b","c","d","e","f","g","h","i","j","k","l","m",
                  "n","o","p","q","r","s","t","u","v","w","x","y","z">>
Digits == {"0","1","2","3","4","5","6","7","8","9"}

Range(s) == {s[i] : i \in DOMAIN s}

\* str.lower on one character
LowerChar(c) ==
    IF \E i \in DOMAIN UpperLetters : UpperLetters[i] = c
    THEN LowerLetters[CHOOSE i \in DOMAIN UpperLetters : UpperLetters[i] = c]
    ELSE c

\* str.lower
lower(s) == [i \in DOMAIN s |-> LowerChar(s[i])]

\* the character class [a-zA-Z0-9] of the regular expression in normalize
IsAlnum(c) == c \in Range(UpperLetters) \cup Range(LowerLetters) \cup Digits

\* translit(text, 'uk', reversed=True) on one character: the Cyrillic
\* letters become Latin letters (one or two), everything else is kept.
\* "CYR_ZHE" and "CYR_A" stand for the letters U+0436 and U+0430.
TranslitChar(c) ==
    CASE c = "CYR_ZHE" -> <<"z", "h">>
      [] c = "CYR_A"   -> <<"a">>
      [] OTHER         -> <<c>>

RECURSIVE translit(_)
translit(text) ==
    IF text = <<>> THEN <<>>
    ELSE TranslitChar(Head(text)) \o translit(Tail(text))

\* re.sub(r'[^a-zA-Z0-9]', '_', s)
SubNonAlnum(s) == [i \in DOMAIN s |-> IF IsAlnum(s[i]) THEN s[i] ELSE "_"]

normalize(text) == lower(SubNonAlnum(translit(text)))

----------------------------------------------------------------------------
(* pathlib *)

\* str.rfind('.'), 1-based; 0 when there is no dot
RFindDot(name) ==
    IF \E i \in DOMAIN name : name[i] = "."
    THEN CHOOSE i \in DOMAIN name :
            name[i] = "." /\ \A j \in DOMAIN name : name[j] = "." => j <= i
    ELSE 0

\* PurePath.suffix: from the last dot, unless the name begins or ends with it
suffix(name) ==
    LET i == RFindDot(name)
    IN IF 1 < i /\ i < Len(name) THEN SubSeq(name, i, Len(name)) ELSE <<>>

\* PurePath.stem
stem(name) ==
    LET i == RFindDot(name)
    IN IF 1 < i /\ i < Len(name) THEN SubSeq(name, 1, i - 1) ELSE name

Name(p) == p[Len(p)]
IsPrefix(a, b) == Len(a) <= Len(b) /\ SubSeq(b, 1, Len(a)) = a
\* strictly below directory d
Under(d, p) == Len(d) < Len(p) /\ IsPrefix(d, p)

exists(p) == p \in dirs \/ p \in DOMAIN files
is_file(p) == p \in DOMAIN files
Entries == dirs \cup DOMAIN files

----------------------------------------------------------------------------
(* The extension table and the classifier *)

Audio    == <<"A","u","d","i","o">>
Docs     == <<"D","o","c","s">>
Images   == <<"I","m","a","g","e","s">>
Video    == <<"V","i","d","e","o">>
Archives == <<"A","r","c","h","i","v","e","s">>
Other    == <<"O","t","h","e","r">>

\* self.categories, in declaration order (a dict keeps insertion order)
categories == <<
    [cat |-> Audio,    exts |-> << <<".","m","p","3">>, <<".","w","a","v">>,
                                   <<".","o","g","g">>, <<".","a","m","r">> >>],
    [cat |-> Docs,     exts |-> << <<".","d","o","c">>, <<".","d","o","c","x">>,
                                   <<".","t","x","t">>, <<".","p","d","f">>,
                                   <<".","x","l","s","x">>, <<".","p","p","t","x">> >>],
    [cat |-> Images,   exts |-> << <<".","j","p","e","g">>, <<".","p","n","g">>,
                                   <<".","j","p","g">>, <<".","s","v","g">> >>],
    [cat |-> Video,    exts |-> << <<".","a","v","i">>, <<".","m","p","4">>,
                                   <<".","m","o","v">>, <<".","m","k","v">> >>],
    [cat |-> Archives, exts |-> << <<".","z","i","p">>, <<".","g","z">>,
                                   <<".","t","a","r">>, <<".","r","a","r">> >>] >>

\* the for loop of get_category from table entry i on
RECURSIVE CategoryFrom(_, _)
CategoryFrom(ext, i) ==
    IF i > Len(categories) THEN Other
    ELSE IF ext \in Range(categories[i].exts) THEN categories[i].cat
    ELSE CategoryFrom(ext, i + 1)

\* get_category without the .lower() of line 43
get_category_NoLower(name) == CategoryFrom(suffix(name), 1)

get_category(name) == CategoryFrom(lower(suffix(name)), 1)

----------------------------------------------------------------------------
(* The relocator *)

\* Path.mkdir(parents=True): the directory and every missing ancestor
MkdirParents(D, d) == D \cup {SubSeq(d, 1, k) : k \in 1..Len(d)}

\* files with the file at path a renamed to path b (Path.replace)
Replace(F, a, b) ==
    [p \in (DOMAIN F \ {a}) \cup {b} |-> IF p = b THEN F[a] ELSE F[p]]

\* move_file(file, category): the tree it leaves and the exception it raises.
\* target_dir.exists() is also true of a regular file of that name; the
\* rename into it then fails with NotADirectoryError.
move_file(file, category) ==
    LET target_dir   == destination_folder \o <<category>>
        D1           == IF ~exists(target_dir)
                        THEN MkdirParents(dirs, target_dir) ELSE dirs
        new_filename == normalize(stem(Name(file))) \o suffix(Name(file))
        new_path     == target_dir \o <<new_filename>>
    IN IF new_path \in D1 \/ new_path \in DOMAIN files
       THEN [dirs |-> D1, files |-> files, err |-> "none"]
       ELSE IF target_dir \notin D1
       THEN [dirs |-> D1, files |-> files, err |-> "NotADirectoryError"]
       ELSE [dirs |-> D1, files |-> Replace(files, file, new_path),
             err |-> "none"]

\* the path move_file computes for a file
TargetPath(file) ==
    destination_folder \o <<get_category(Name(file))>>
        \o <<normalize(stem(Name(file))) \o suffix(Name(file))>>

----------------------------------------------------------------------------
(* The pruner *)

ChildDirs(D, d) == {x \in D : Len(x) = Len(d) + 1 /\ IsPrefix(d, x)}
\* list(folder_path.iterdir()) is empty
IsEmptyDir(D, F, d) == ~\E x \in D \cup DOMAIN F : Len(x) = Len(d) + 1 /\ IsPrefix(d, x)

RECURSIVE remove_empty_folders(_, _)
RECURSIVE PruneEach(_, _)
\* remove_empty_folders(root_path): the directories left
remove_empty_folders(D, root_path) == PruneEach(D, ChildDirs(D, root_path))

\* the for loop of remove_empty_folders over the directories still to visit
PruneEach(D, todo) ==
    IF todo = {} THEN D
    ELSE LET folder_path == CHOOSE x \in todo : TRUE
             D1 == remove_empty_folders(D, folder_path)
             D2 == IF IsEmptyDir(D1, files, folder_path)
                   THEN D1 \ {folder_path} ELSE D1
         IN PruneEach(D2, todo \ {folder_path})

----------------------------------------------------------------------------
(* Names, contents and initial trees *)

nS       == <<"s">>
nD       == <<"d">>
nSub     == <<"s","u","b">>
nMissing == <<"n","o">>
fAb      == <<"A"," ","b",".","t","x","t">>
fab      == <<"a","_","b",".","t","x","t">>
fZh      == <<"CYR_ZHE",".","m","p","3">>
fZIP     == <<"x",".","Z","I","P">>

\* None, and the value of an attribute that was never assigned
Unset == <<>>

\* files an initial tree of the walker may hold; each has its own content.
\* One is an extensionless file named like a category, one lies in a
\* category directory of the destination already.
WalkCandidates(dst) == {
    [path |-> <<nS, fAb>>,             content |-> "c1"],
    [path |-> <<nS, nSub, fab>>,       content |-> "c2"],
    [path |-> <<nS, Other>>,           content |-> "c3"],
    [path |-> <<nS, nSub, fZh>>,       content |-> "c4"],
    [path |-> dst \o <<Docs, fab>>,    content |-> "c5"],
    [path |-> <<nS, fZIP>>,            content |-> "c6"] }

Ancestors(p) == {SubSeq(p, 1, k) : k \in 1..(Len(p) - 1)}

TreeDirs(chosen, always) == always \cup UNION {Ancestors(c.path) : c \in chosen}
TreeFiles(chosen) ==
    [p \in {c.path : c \in chosen} |->
        (CHOOSE c \in chosen : c.path = p).content]

Msg(m, p) == [msg |-> m, path |-> p]

\* the organizer after __init__ (root_dir as given), idle, on a tree
InitOn(dst, rd, chosen, always) ==
    /\ source_folder = <<nS>>
    /\ destination_folder = dst
    /\ root_dir = rd
    /\ dirs = TreeDirs(chosen, always)
    /\ files = TreeFiles(chosen)
    /\ call = "none" /\ arg = <<>> /\ pc = "idle" /\ err = "none"
    /\ ret = <<>> /\ out = {}
    /\ globSeen = {} /\ globSnap = {}
    /\ calls = 0
    /\ files0 = TreeFiles(chosen) /\ dirs0 = TreeDirs(chosen, always)
    /\ prevCall = "none"

\* __init__ assigns source_folder, destination_folder and categories only
Init ==
    \E dst \in {<<nS>>, <<nD>>} :
      \E chosen \in SUBSET WalkCandidates(dst) :
        /\ Cardinality(chosen) <= MaxFiles
        /\ InitOn(dst, Unset, chosen, {<<nS>>, dst, <<nS, nSub>>})

----------------------------------------------------------------------------
(* Entry points and loops *)

\* a client calls a public entry point of an idle organizer
Begin(name, a) ==
    /\ pc = "idle"
    /\ calls < MaxCalls
    /\ calls' = calls + 1
    /\ call' = name /\ arg' = a /\ prevCall' = call
    /\ files0' = files /\ dirs0' = dirs
    /\ UNCHANGED <<source_folder, destination_folder, root_dir>>

\* Path.glob("**/*"): every entry below the root
GlobAll(root) == {p \in Entries : Under(root, p)}
\* Path.glob("**/*.*"): every entry below the root with a dot in its name
GlobDotted(root) == {p \in Entries : Under(root, p) /\ "." \in Range(Name(p))}

\* the first statement of extract_and_move_archives, self.root_dir / "Archives",
\* and the creation of its generator
EnterExpand ==
    IF root_dir = Unset
    THEN /\ err' = "AttributeError" /\ pc' = "idle"
         /\ UNCHANGED <<globSeen, globSnap>>
    ELSE /\ err' = "none" /\ pc' = "expand"
         /\ globSeen' = {} /\ globSnap' = GlobDotted(root_dir)

\* organize_files(): the generator over source_folder is created
CallOrganizeFiles ==
    /\ Begin("organize_files", <<>>)
    /\ pc' = "walk" /\ err' = "none" /\ out' = {} /\ ret' = <<>>
    /\ globSeen' = {} /\ globSnap' = GlobAll(source_folder)
    /\ UNCHANGED <<dirs, files>>

\* organize(): begins with organize_files()
CallOrganize ==
    /\ Begin("organize", <<>>)
    /\ pc' = "walk" /\ err' = "none" /\ out' = {} /\ ret' = <<>>
    /\ globSeen' = {} /\ globSnap' = GlobAll(source_folder)
    /\ UNCHANGED <<dirs, files>>

\* one iteration of the loop of organize_files that meets a regular file
\* (an iteration on any other entry does nothing, line 104).  The generator
\* is lazy: it yields an entry it has not yielded and that is on disk now,
\* so a file moved below the source root may or may not be met again.
WalkStep ==
    /\ pc = "walk"
    /\ \E element \in GlobAll(source_folder) \ globSeen :
         /\ is_file(element)
         /\ globSeen' = globSeen \cup {element}
         /\ LET r == move_file(element, get_category(Name(element)))
            IN /\ dirs' = r.dirs /\ files' = r.files /\ err' = r.err
               /\ pc' = IF r.err = "none" THEN "walk" ELSE "idle"
    /\ UNCHANGED <<source_folder, destination_folder, root_dir, call, arg, ret,
                   out, globSnap, calls, files0, dirs0, prevCall>>

\* the generator is exhausted: organize_files returns, and organize goes on
\* to extract_and_move_archives()
WalkReturn ==
    /\ pc = "walk"
    /\ \A p \in globSnap : is_file(p) => p \in globSeen
    /\ IF call = "organize"
       THEN EnterExpand
       ELSE pc' = "idle" /\ UNCHANGED <<err, globSeen, globSnap>>
    /\ UNCHANGED <<source_folder, destination_folder, root_dir, dirs, files,
                   call, arg, ret, out, calls, files0, dirs0, prevCall>>

\* extract_and_move_archives()
CallExtract ==
    /\ Begin("extract_and_move_archives", <<>>)
    /\ out' = {} /\ ret' = <<>>
    /\ EnterExpand
    /\ UNCHANGED <<dirs, files>>

\* remove_empty_folders(root_path), root_path None or the destination
CallRemoveEmptyFolders ==
    \E root_path \in {Unset, destination_folder} :
      /\ Begin("remove_empty_folders", root_path)
      /\ out' = {} /\ ret' = <<>>
      /\ LET root == IF root_path = Unset THEN root_dir ELSE root_path
         IN IF root = Unset
            THEN err' = "AttributeError" /\ dirs' = dirs
            ELSE err' = "none" /\ dirs' = remove_empty_folders(dirs, root)
      /\ UNCHANGED <<files, pc, globSeen, globSnap>>

\* main() with one path argument: FileOrganizer(path) lacks the second
\* positional argument of __init__
CallMain ==
    \E path \in {<<nS>>, <<nMissing>>} :
      /\ Begin("main", path)
      /\ IF ~exists(path)
         THEN err' = "none" /\ out' = {Msg("Error: Folder does not exist", <<>>)}
         ELSE err' = "TypeError" /\ out' = {}
      /\ ret' = <<>>
      /\ UNCHANGED <<dirs, files, pc, globSeen, globSnap>>

----------------------------------------------------------------------------
(* The archive expander *)

fFooZip  == <<"f","o","o",".","z","i","p">>
fBadZip  == <<"b","a","d",".","z","i","p">>
fInZip   == <<"i","n",".","z","i","p">>
fGz      == <<"g",".","g","z">>
fRar     == <<"r",".","r","a","r">>
fCrcZip  == <<"c","r","c",".","z","i","p">>
fNote    == <<"n",".","t","x","t">>
fMember  == <<"m",".","t","x","t">>
fPart    == <<"p",".","t","x","t">>

\* the format a content really is: "badzip" for a zip file whose directory
\* reads but whose member data is damaged, "none" for a file that is no
\* archive at all
ArchiveKind(c) ==
    CASE c \in {"zipOuter", "zipInner"} -> "zip"
      [] c = "rarGood"                  -> "rar"
      [] c = "zipBadCrc"                -> "badzip"
      [] OTHER                          -> "none"

\* what an archive content holds: member name and member content.  zipOuter
\* holds another archive; a corrupt archive may yield a member before the
\* decoder gives up.
Members(c) ==
    CASE c = "zipOuter" -> {[name |-> fInZip,  content |-> "zipInner"],
                            [name |-> fMember, content |-> "t1"]}
      [] c = "zipInner" -> {[name |-> fMember, content |-> "t2"]}
      [] c = "rarGood"  -> {[name |-> fMember, content |-> "t3"]}
      [] c = "corrupt"  -> {[name |-> fPart,   content |-> "t4"]}
      [] c = "zipBadCrc" -> {[name |-> fPart,  content |-> "t6"]}
      [] OTHER          -> {}

EndsWith(name, e) ==
    Len(e) <= Len(name) /\ SubSeq(name, Len(name) - Len(e) + 1, Len(name)) = e

\* shutil.unpack_archive picks the decoder by the file name as written
\* (case-sensitive): "zip", "tar", or "" when it knows none
UnpackFormat(name) ==
    IF EndsWith(name, <<".","z","i","p">>) THEN "zip"
    ELSE IF \/ EndsWith(name, <<".","t","a","r">>)
            \/ EndsWith(name, <<".","t","a","r",".","g","z">>)
            \/ EndsWith(name, <<".","t","g","z">>) THEN "tar"
    ELSE ""

\* files F with the members W written below directory d
WriteMembers(F, d, W) ==
    [p \in DOMAIN F \cup {d \o <<m.name>> : m \in W} |->
        IF \E m \in W : d \o <<m.name>> = p
        THEN (CHOOSE m \in W : d \o <<m.name>> = p).content
        ELSE F[p]]

Unlink(F, a) == [p \in DOMAIN F \ {a} |-> F[p]]

\* archive_subdir.mkdir(exist_ok=True): the exception it raises, if any
MkdirError(archive_dir, archive_subdir) ==
    IF archive_subdir \in dirs THEN "none"
    ELSE IF archive_subdir \in DOMAIN files THEN "FileExistsError"
    ELSE IF archive_dir \in DOMAIN files THEN "NotADirectoryError"
    ELSE IF archive_dir \notin dirs THEN "FileNotFoundError"
    ELSE "none"

\* the decoder the loop body hands the entry to: "rar" (rarfile), "shutil"
\* (unpack_archive), or "" when the entry falls through both tests
Decoder(archive_path) ==
    LET sfx == lower(suffix(Name(archive_path)))
    IN IF sfx = <<".","r","a","r">> THEN "rar"
       ELSE IF sfx \in {<<".","z","i","p">>, <<".","g","z">>, <<".","t","a","r">>}
       THEN "shutil"
       ELSE ""

\* whether the decoder extracts everything and returns
Extracts(archive_path) ==
    /\ is_file(archive_path)
    /\ LET k == ArchiveKind(files[archive_path])
       IN \/ Decoder(archive_path) = "rar" /\ k = "rar"
          \/ /\ Decoder(archive_path) = "shutil"
             /\ UnpackFormat(Name(archive_path)) = k

\* a zip file that passes is_zipfile but fails while its members are read
\* makes unpack_archive raise zipfile.BadZipFile, which is neither
\* shutil.ReadError nor rarfile.Error
RaisesUncaught(archive_path) ==
    /\ is_file(archive_path)
    /\ Decoder(archive_path) = "shutil"
    /\ UnpackFormat(Name(archive_path)) = "zip"
    /\ ArchiveKind(files[archive_path]) = "badzip"

\* the sets of members a failing extraction may have written before it
\* raised: none when unpack_archive knows no format for the name
PartialWrites(archive_path) ==
    IF ~is_file(archive_path) THEN {{}}
    ELSE IF Decoder(archive_path) = "shutil"
            /\ UnpackFormat(Name(archive_path)) = ""
    THEN {{}}
    ELSE SUBSET Members(files[archive_path])

\* the tree after a successful extraction: the members are written, then
\* archive_path.unlink()
AfterExtract(archive_path, archive_subdir) ==
    Unlink(WriteMembers(files, archive_subdir, Members(files[archive_path])),
           archive_path)

\* an except clause that also removed the archive it could not read
AfterFailure_Unlinks(archive_path, archive_subdir, W) ==
    Unlink(WriteMembers(files, archive_subdir, W), archive_path)

\* the tree after a failed extraction that had written the members W: the
\* except clause reports and goes on, any other exception leaves the method
AfterFailure(archive_path, archive_subdir, W) ==
    WriteMembers(files, archive_subdir, W)

\* one iteration of the loop of extract_and_move_archives on a yielded entry
ExpandStep ==
    /\ pc = "expand"
    /\ \E archive_path \in GlobDotted(root_dir) \ globSeen :
         LET archive_dir    == root_dir \o <<Archives>>
             archive_subdir == archive_dir \o <<stem(Name(archive_path))>>
             e              == MkdirError(archive_dir, archive_subdir)
             D1             == dirs \cup {archive_subdir}
         IN /\ globSeen' = globSeen \cup {archive_path}
            /\ IF e # "none"
               THEN /\ err' = e /\ pc' = "idle"
                    /\ UNCHANGED <<dirs, files, out>>
               ELSE IF Decoder(archive_path) = ""
               THEN /\ dirs' = D1
                    /\ UNCHANGED <<files, out, err, pc>>
               ELSE IF Extracts(archive_path)
               THEN /\ dirs' = D1
                    /\ files' = AfterExtract(archive_path, archive_subdir)
                    /\ UNCHANGED <<out, err, pc>>
               ELSE \E W \in PartialWrites(archive_path) :
                    /\ dirs' = D1
                    /\ files' = AfterFailure(archive_path, archive_subdir, W)
                    /\ IF RaisesUncaught(archive_path)
                       THEN /\ err' = "BadZipFile" /\ pc' = "idle"
                            /\ out' = out
                       ELSE /\ out' = out \cup
                                 {Msg("Error extracting", archive_path),
                                  Msg("Skipping file", archive_path)}
                            /\ UNCHANGED <<err, pc>>
    /\ UNCHANGED <<source_folder, destination_folder, root_dir, call, arg, ret,
                   globSnap, calls, files0, dirs0, prevCall>>

\* the generator is exhausted: extract_and_move_archives returns, and
\* organize goes on to remove_empty_folders() and print("All ok")
ExpandReturn ==
    /\ pc = "expand"
    /\ globSnap \subseteq globSeen
    /\ pc' = "idle"
    /\ IF call = "organize"
       THEN /\ dirs' = remove_empty_folders(dirs, root_dir)
            /\ out' = out \cup {Msg("All ok", <<>>)}
       ELSE UNCHANGED <<dirs, out>>
    /\ UNCHANGED <<source_folder, destination_folder, root_dir, files, call,
                   arg, err, ret, globSeen, globSnap, calls, files0, dirs0,
                   prevCall>>

\* files an initial tree of the expander may hold
ExpandCandidates == {
    [path |-> <<nS, Archives, fFooZip>>, content |-> "zipOuter"],
    [path |-> <<nS, Archives, fBadZip>>, content |-> "corrupt"],
    [path |-> <<nS, Archives, fGz>>,     content |-> "zipInner"],
    [path |-> <<nS, Archives, fRar>>,    content |-> "rarGood"],
    [path |-> <<nS, Archives, fCrcZip>>, content |-> "zipBadCrc"],
    [path |-> <<nS, Archives, fZIP>>,    content |-> "zipInner"],
    [path |-> <<nS, Docs, fNote>>,       content |-> "t0"] }

\* an organizer whose client assigned root_dir = destination_folder after
\* __init__: without the assignment the expander never reaches its loop
InitRootDir ==
    \E chosen \in SUBSET ExpandCandidates :
      \E always \in {{<<nS>>}, {<<nS>>, <<nS, Archives>>}} :
        /\ Cardinality(chosen) <= MaxFiles
        /\ InitOn(<<nS>>, <<nS>>, chosen, always)

NextRootDir ==
    \/ CallExtract
    \/ ExpandStep
    \/ ExpandReturn
    \/ CallRemoveEmptyFolders

SpecRootDir == InitRootDir /\ [][NextRootDir]_vars

\* the full run of an organizer whose client assigned root_dir
NextFullRun ==
    \/ CallOrganize
    \/ WalkStep
    \/ WalkReturn
    \/ ExpandStep
    \/ ExpandReturn

SpecFullRun == InitRootDir /\ [][NextFullRun]_vars

----------------------------------------------------------------------------
(* The classifier on its own: get_category applied to drawn file names *)

\* str.upper on one character
UpperChar(c) ==
    IF \E i \in DOMAIN LowerLetters : LowerLetters[i] = c
    THEN UpperLetters[CHOOSE i \in DOMAIN LowerLetters : LowerLetters[i] = c]
    ELSE c

\* an extension in every letter case
CaseVariants(e) ==
    {[i \in DOMAIN e |-> IF i \in m THEN UpperChar(e[i]) ELSE e[i]] :
        m \in SUBSET DOMAIN e}

\* the stems the names are built from; one holds a dot of its own
Stems == {<<"a">>, <<"x",".","y">>, <<"CYR_A"," ","1">>}

\* the extensions the table lists
ListedExts == UNION {Range(categories[i].exts) : i \in DOMAIN categories}

\* extensions the table does not list
UnlistedExts == {<<".","p","y">>, <<".","m","p">>, <<".","z","i","p","x">>,
                 <<".","7","z">>}

\* names without an extension in pathlib's sense: no dot, a trailing dot,
\* a leading dot only
NoExtNames == {<<"R","E","A","D","M","E">>, <<"a",".">>, <<".","z","i","p">>}

ClassifyInputs ==
    {st \o v : st \in Stems,
               v \in UNION {CaseVariants(e) : e \in ListedExts \cup UnlistedExts}}
    \cup NoExtNames

\* get_category(file) called by a client
CallGetCategory ==
    \E name \in ClassifyInputs :
      /\ Begin("get_category", <<name>>)
      /\ ret' = get_category(name)
      /\ err' = "none" /\ out' = {}
      /\ UNCHANGED <<dirs, files, pc, globSeen, globSnap>>

InitClassify == InitOn(<<nS>>, Unset, {}, {<<nS>>})

NextClassify == CallGetCategory

SpecClassify == InitClassify /\ [][NextClassify]_vars

Next ==
    \/ CallOrganizeFiles
    \/ CallOrganize
    \/ WalkStep
    \/ WalkReturn
    \/ CallExtract
    \/ CallRemoveEmptyFolders
    \/ CallMain

Spec == Init /\ [][Next]_vars

----------------------------------------------------------------------------
(* The claims *)

ArchiveExts == {<<".","z","i","p">>, <<".","g","z">>, <<".","t","a","r">>,
                <<".","r","a","r">>}
IsArchiveName(p) == lower(suffix(Name(p))) \in ArchiveExts
CategoryNames == {Audio, Docs, Images, Video, Archives, Other}
\* the subfolder of an archive: Archives/<stem> under the destination root
SubfolderOf(p) == destination_folder \o <<Archives, stem(Name(p))>>
\* the call has ended, by returning or by raising
Ended(name) == call = name /\ pc = "idle"
\* directly inside a category directory of the destination root
InCategoryDir(p) ==
    /\ Len(p) = Len(destination_folder) + 2
    /\ IsPrefix(destination_folder, p)
    /\ p[Len(destination_folder) + 1] \in CategoryNames
    /\ p[Len(destination_folder) + 1] \in {Name(d) : d \in dirs}
SourceFiles0 == {f \in DOMAIN files0 : Under(source_folder, f)}

\* C1: after organize_files every regular file that was in the source tree is
\* either at destination_root/<category>/<normalize(stem)><extension> and no
\* longer at its old path, or still at its old path with its content because
\* the target path is taken; no file that existed before has other content
\* than before, and every content is at exactly one path.
C1_MovedOrSkipped ==
    Ended("organize_files") =>
        /\ \A f \in SourceFiles0 :
             LET t == TargetPath(f)
             IN \/ /\ t \in DOMAIN files /\ files[t] = files0[f]
                   /\ f # t => f \notin DOMAIN files
                \/ /\ f \in DOMAIN files /\ files[f] = files0[f]
                   /\ exists(t)
        /\ \A p \in DOMAIN files0 \cap DOMAIN files :
             files[p] = files0[p]
        /\ \A p, q \in DOMAIN files : files[p] = files[q] => p = q

\* C3: a full run on an existing root is not aborted by anything met in the
\* walk and extract phases: organize ends without an exception and with the
\* completion message.
C3_FullRunCompletes ==
    Ended("organize") => err = "none" /\ Msg("All ok", <<>>) \in out

\* C4: after a full run no directory below the destination root is empty.
C4_NoEmptyDirAfterFullRun ==
    Ended("organize") =>
        ~\E d \in dirs : Under(destination_folder, d) /\ IsEmptyDir(dirs, files, d)

\* C5: a run of organize_files that follows a run of organize_files raises
\* nothing and moves nothing: the files stay as the first run left them.
C5_SecondRunIsNoOp ==
    (call = "organize_files" /\ prevCall = "organize_files") =>
        err = "none" /\ files = files0

\* C6: after organize_files on N source files with pairwise distinct targets
\* (category, normalized name) and no category directory to begin with,
\* exactly N files are below the destination root, each directly inside a
\* category directory, and no source file is outside those directories.
C6_AllMoved ==
    ( /\ Ended("organize_files")
      /\ DOMAIN files0 = SourceFiles0
      /\ \A f, g \in SourceFiles0 : TargetPath(f) = TargetPath(g) => f = g
      /\ ~\E c \in CategoryNames : destination_folder \o <<c>> \in dirs0 ) =>
        /\ Cardinality({p \in DOMAIN files : Under(destination_folder, p)})
              = Cardinality(SourceFiles0)
        /\ \A p \in DOMAIN files :
              (Under(destination_folder, p) \/ Under(source_folder, p))
                  => InCategoryDir(p)

\* C7: no extension is listed under two categories; a name whose extension is
\* listed under category C, in any letter case, is classified as C; a name
\* with an unlisted extension or with no extension is classified as Other.
C7_ClassifierAgreesWithTable ==
    /\ \A i, k \in DOMAIN categories :
         i # k => Range(categories[i].exts) \cap Range(categories[k].exts) = {}
    /\ call = "get_category" =>
         LET name == arg[1]
         IN /\ \A i \in DOMAIN categories : \A e \in Range(categories[i].exts) :
                 (\E st \in Stems, v \in CaseVariants(e) : name = st \o v)
                     => ret = categories[i].cat
            /\ (\E st \in Stems, e \in UnlistedExts :
                   \E v \in CaseVariants(e) : name = st \o v) => ret = Other
            /\ name \in NoExtNames => ret = Other

\* C7 witness: an archive extension written in capitals was classified
C7_Witness ==
    /\ call = "get_category"
    /\ arg = << <<"x",".","y",".","R","A","R">> >>
    /\ ret = Archives

\* C8: main with one path argument ends without raising: for a missing path
\* with the error message and the tree untouched, for an existing path with
\* the completion message.
C8_MainEndsCleanly ==
    Ended("main") =>
        /\ err = "none"
        /\ IF arg \in dirs0 \/ arg \in DOMAIN files0
           THEN Msg("All ok", <<>>) \in out
           ELSE /\ Msg("Error: Folder does not exist", <<>>) \in out
                /\ files = files0 /\ dirs = dirs0

\* C9: extract_and_move_archives creates the subfolder Archives/<stem> for
\* every archive file below the destination root, creates no other
\* directory, reports on archives only and leaves every other file alone.
C9_ActsOnArchivesOnly ==
    Ended("extract_and_move_archives") =>
        /\ \A p \in DOMAIN files0 :
             Under(destination_folder, p) /\ IsArchiveName(p)
                 => SubfolderOf(p) \in dirs
        /\ \A d \in dirs \ dirs0 :
             \E p \in globSeen : IsArchiveName(p) /\ d = SubfolderOf(p)
        /\ \A m \in out : IsArchiveName(m.path)
        /\ \A p \in DOMAIN files0 :
             ~IsArchiveName(p) => p \in DOMAIN files /\ files[p] = files0[p]

\* the frame part of C9 alone: every directory the expander creates is the
\* subfolder of an archive it met
C9_NoForeignSubfolder ==
    call = "extract_and_move_archives" =>
        \A d \in dirs \ dirs0 :
            \E p \in globSeen : IsArchiveName(p) /\ d = SubfolderOf(p)

\* C2: a step of the expander removes an archive from disk only if it has
\* written all its members into the archive's subfolder and reported no
\* error for it; a step that reports an extraction error leaves the archive
\* at its path with its content, and its subfolder in place; a step that
\* ends the call with an exception removes no archive and no directory.
C2_Step ==
    pc = "expand" =>
        /\ \A p \in DOMAIN files :
             (IsArchiveName(p) /\ p \notin DOMAIN files') =>
                /\ Msg("Error extracting", p) \notin out'
                /\ SubfolderOf(p) \in dirs'
                /\ \A m \in Members(files[p]) :
                     /\ SubfolderOf(p) \o <<m.name>> \in DOMAIN files'
                     /\ files'[SubfolderOf(p) \o <<m.name>>] = m.content
        /\ \A p \in DOMAIN files :
             Msg("Error extracting", p) \in out' \ out =>
                /\ p \in DOMAIN files' /\ files'[p] = files[p]
                /\ SubfolderOf(p) \in dirs'
        /\ err' # "none" =>
                /\ dirs \subseteq dirs'
                /\ \A p \in DOMAIN files :
                     IsArchiveName(p) => p \in DOMAIN files' /\ files'[p] = files[p]

C2_DeletedOnlyAfterExtraction == [][C2_Step]_vars

\* C2 witness: the expander returned having removed one archive it had
\* extracted and having kept one it had failed on, subfolder included
C2_Witness ==
    /\ Ended("extract_and_move_archives") /\ err = "none"
    /\ \E p \in DOMAIN files0 :
         /\ IsArchiveName(p) /\ p \notin DOMAIN files
         /\ \A m \in Members(files0[p]) : SubfolderOf(p) \o <<m.name>> \in DOMAIN files
    /\ \E p \in DOMAIN files :
         /\ Msg("Error extracting", p) \in out
         /\ files[p] = files0[p]
         /\ SubfolderOf(p) \in dirs

====
